---- MODULE Spec2Model ----
(***************************************************************************)
(* Model of server.js, the Pokemon Database API: the route handlers of     *)
(* /api/v1/pokemon (list, get, create, update, delete) and /api/v1/search, *)
(* the helpers paginate and buildWhereClause, and the part of the          *)
(* Sequelize/PostgreSQL store the handlers call.                           *)
(*                                                                         *)
(* Text (query parameters, names, descriptions) is a sequence of           *)
(* one-character strings, so that parseInt and ILIKE are computed.         *)
(* A JavaScript number is a record [k, v]: k = "num" with the integer v,   *)
(* k = "nan" or k = "inf" (v = 0).                                         *)
(***************************************************************************)
EXTENDS Integers, Sequences, FiniteSets, Bags, TLC

VARIABLES
    store,       \* table pokemon: id -> row
    idSeq,       \* last value handed out by the id sequence (autoIncrement)
    del,         \* the DELETE requests in flight: a bag of the instances they found
    req,         \* the request handled by the last step
    storeQuery,  \* the query options the last step passed to the store
    resp,        \* the response sent by the last step
    dels,        \* per id: DELETEs answered 200 since a Create last stored the id
    everDeleted  \* ids for which some DELETE was answered 200

vars == <<store, idSeq, del, req, storeQuery, resp, dels, everDeleted>>

(***************************************************************************)
(* Bounds of the model.                                                    *)
(***************************************************************************)
MaxId == 2
MaxItems == 101
MaxDeleting == 2

Ids == 1..MaxId

(***************************************************************************)
(* JavaScript numbers.                                                     *)
(***************************************************************************)
Num(n) == [k |-> "num", v |-> n]
NaN == [k |-> "nan", v |-> 0]
Infinity == [k |-> "inf", v |-> 0]

IsNum(x) == x.k = "num"

\* a - b, for b an integer
JsMinus(a, b) == IF IsNum(a) THEN Num(a.v - b) ELSE a

\* a * b; NaN if either is NaN (no infinite operand arises in the handlers)
JsTimes(a, b) == IF IsNum(a) /\ IsNum(b) THEN Num(a.v * b.v) ELSE NaN

\* Math.min(a, b), b an integer: NaN if a is NaN
MathMin(a, b) == IF IsNum(a) THEN Num(IF a.v < b THEN a.v ELSE b) ELSE NaN

\* a < b and a > b: false as soon as an operand is NaN
JsLess(a, b) ==
    /\ a.k # "nan" /\ b.k # "nan"
    /\ \/ IsNum(a) /\ IsNum(b) /\ a.v < b.v
       \/ IsNum(a) /\ b.k = "inf"

JsGreater(a, b) == JsLess(b, a)

\* ceiling of n / d for integers n >= 0 and d # 0
CeilDiv(n, d) ==
    IF d > 0 THEN (n + d - 1) \div d
    ELSE -(n \div (-d))

\* Math.ceil(count / limit), count an integer >= 0
MathCeilDiv(count, limit) ==
    IF ~IsNum(limit) THEN NaN
    ELSE IF limit.v = 0 THEN (IF count = 0 THEN NaN ELSE Infinity)
    ELSE Num(CeilDiv(count, limit.v))

(***************************************************************************)
(* Text.                                                                   *)
(***************************************************************************)
Digits == <<"0", "1", "2", "3", "4", "5", "6", "7", "8", "9">>

IsDigit(c) == \E i \in 1..10 : Digits[i] = c

DigitVal(c) == (CHOOSE i \in 1..10 : Digits[i] = c) - 1

Upper == <<"A", "B", "C", "D", "E", "F", "G", "H", "I", "J", "K", "L", "M",
           "N", "O", "P", "Q", "R", "S", "T", "U", "V", "W", "X", "Y", "Z">>
Lower == <<"a", "b", "c", "d", "e", "f", "g", "h", "i", "j", "k", "l", "m",
           "n", "o", "p", "q", "r", "s", "t", "u", "v", "w", "x", "y", "z">>

ToLowerChar(c) ==
    IF \E i \in 1..Len(Upper) : Upper[i] = c
    THEN Lower[CHOOSE i \in 1..Len(Upper) : Upper[i] = c]
    ELSE c

ToUpperChar(c) ==
    IF \E i \in 1..Len(Lower) : Lower[i] = c
    THEN Upper[CHOOSE i \in 1..Len(Lower) : Lower[i] = c]
    ELSE c

ToLower(s) == [i \in 1..Len(s) |-> ToLowerChar(s[i])]

toUpperCase(s) == [i \in 1..Len(s) |-> ToUpperChar(s[i])]

RECURSIVE SkipSpaces(_)
SkipSpaces(s) ==
    IF s # <<>> /\ Head(s) = " " THEN SkipSpaces(Tail(s)) ELSE s

RECURSIVE DigitPrefix(_)
DigitPrefix(s) ==
    IF s # <<>> /\ IsDigit(Head(s)) THEN <<Head(s)>> \o DigitPrefix(Tail(s)) ELSE <<>>

RECURSIVE DecimalValue(_)
DecimalValue(d) ==
    IF d = <<>> THEN 0
    ELSE 10 * DecimalValue(SubSeq(d, 1, Len(d) - 1)) + DigitVal(d[Len(d)])

\* parseInt(s), radix 10: leading blanks, an optional sign, then the longest
\* run of digits; what follows the digits is dropped; no digit at all is NaN
parseInt(s) ==
    LET t == SkipSpaces(s)
        signed == t # <<>> /\ Head(t) \in {"-", "+"}
        u == IF signed THEN Tail(t) ELSE t
        d == DigitPrefix(u)
    IN  IF d = <<>> THEN NaN
        ELSE IF signed /\ Head(t) = "-" THEN Num(-DecimalValue(d))
        ELSE Num(DecimalValue(d))

\* SQL LIKE: % is any run of characters, _ any one character
RECURSIVE Like(_, _)
Like(t, p) ==
    IF p = <<>> THEN t = <<>>
    ELSE IF Head(p) = "%" THEN Like(t, Tail(p)) \/ (t # <<>> /\ Like(Tail(t), p))
    ELSE /\ t # <<>>
         /\ Head(p) = "_" \/ Head(p) = Head(t)
         /\ Like(Tail(t), Tail(p))

\* PostgreSQL ILIKE
ILike(t, p) == Like(ToLower(t), ToLower(p))

\* the template literal `%${s}%`
Percent(s) == <<"%">> \o s \o <<"%">>

\* a JavaScript string is truthy unless it is empty; a missing key is undefined
Truthy(f, key) == key \in DOMAIN f /\ f[key] # <<>>

(***************************************************************************)
(* Utility functions.                                                      *)
(***************************************************************************)
PageCap == 100

\* paginate without the cap on limit
paginateUncapped(query, page, limit) ==
    [where |-> query.where, order |-> query.order,
     offset |-> JsTimes(JsMinus(page, 1), limit),
     limit |-> limit]

\* paginate(query, page, limit): query extended with offset and limit
paginate(query, page, limit) ==
    [where |-> query.where, order |-> query.order,
     offset |-> JsTimes(JsMinus(page, 1), limit),
     limit |-> MathMin(limit, PageCap)]

NoWhere == [x \in {} |-> 0]

WhereName(filters) ==
    IF Truthy(filters, "name")
    THEN [name |-> [iLike |-> Percent(filters.name)]] ELSE NoWhere

WhereTypes(filters) ==
    IF Truthy(filters, "type")
    THEN [types |-> [contains |-> <<filters.type>>]] ELSE NoWhere

WhereGeneration(filters) ==
    IF Truthy(filters, "generation")
    THEN [generation |-> parseInt(filters.generation)] ELSE NoWhere

StatsGte(filters) ==
    IF Truthy(filters, "minStats")
    THEN [gte |-> parseInt(filters.minStats)] ELSE NoWhere

StatsLte(filters) ==
    IF Truthy(filters, "maxStats")
    THEN [lte |-> parseInt(filters.maxStats)] ELSE NoWhere

WhereStats(filters) ==
    IF Truthy(filters, "minStats") \/ Truthy(filters, "maxStats")
    THEN ("baseStats.total" :> (StatsGte(filters) @@ StatsLte(filters))) ELSE NoWhere

\* buildWhereClause without the generation filter
buildWhereClauseNoGeneration(filters) ==
    WhereName(filters) @@ WhereTypes(filters) @@ WhereStats(filters)

\* buildWhereClause(filters)
buildWhereClause(filters) ==
    WhereName(filters) @@ WhereTypes(filters) @@ WhereGeneration(filters)
        @@ WhereStats(filters)

(***************************************************************************)
(* The store: table pokemon behind the Sequelize model Pokemon.            *)
(***************************************************************************)
StatNames == {"hp", "attack", "defense", "specialAttack", "specialDefense", "speed"}

RequiredFields == {"name", "species", "types", "baseStats", "description"}

DefaultGeneration == 1

\* Object.values(obj).reduce((sum, stat) => sum + stat, 0): every value of the
\* object is added, whatever its key (all values of the model are numbers)
RECURSIVE SumOver(_, _)
SumOver(obj, keys) ==
    IF keys = {} THEN 0
    ELSE LET k == CHOOSE x \in keys : TRUE
         IN  obj[k] + SumOver(obj, keys \ {k})

SumValues(obj) == SumOver(obj, DOMAIN obj)

\* the handlers' "calculate total stats": data with baseStats.total assigned
WithTotal(data) ==
    IF "baseStats" \in DOMAIN data
    THEN [data EXCEPT !.baseStats =
              ("total" :> SumValues(data.baseStats)) @@ data.baseStats]
    ELSE data

\* Pokemon.findByPk(id): the row, or null
Null == [id |-> 0]

findByPk(id) == IF id \in DOMAIN store THEN store[id] ELSE Null

\* allowNull: false
MissingRequired(values) == RequiredFields \ DOMAIN values

\* unique: true on name; the primary key
NameTaken(name, exceptId) ==
    \E i \in DOMAIN store : i # exceptId /\ store[i].name = name

\* the row Pokemon.create inserts: the given values, defaultValue for the rest
NewRow(values, id) ==
    [id |-> id,
     name |-> values.name,
     species |-> values.species,
     types |-> values.types,
     baseStats |-> values.baseStats,
     generation |-> IF "generation" \in DOMAIN values
                    THEN values.generation ELSE DefaultGeneration,
     description |-> values.description]

\* instance.update(values): the given attributes replace the row's; the
\* primary key of a persisted instance is not reassigned
RowFields == {"name", "species", "types", "baseStats", "generation", "description"}

MergedRow(row, values) ==
    [f \in DOMAIN row |->
        IF f \in RowFields /\ f \in DOMAIN values THEN values[f] ELSE row[f]]

\* one condition { column: { [Op.iLike]: pattern } } of an Op.or list
OrMatches(row, cond) ==
    \E col \in DOMAIN cond : ILike(row[col], cond[col].iLike)

\* WHERE: every key of the where object must hold of the row
Matches(row, where) ==
    /\ "name" \in DOMAIN where => ILike(row.name, where.name.iLike)
    /\ "types" \in DOMAIN where =>
           \A i \in 1..Len(where.types.contains) :
               where.types.contains[i] \in row.types
    /\ "generation" \in DOMAIN where =>
           IsNum(where.generation) /\ row.generation = where.generation.v
    /\ "baseStats.total" \in DOMAIN where =>
           LET r == where["baseStats.total"]
           IN  /\ "gte" \in DOMAIN r =>
                      IsNum(r.gte) /\ row.baseStats.total >= r.gte.v
               /\ "lte" \in DOMAIN r =>
                      IsNum(r.lte) /\ row.baseStats.total <= r.lte.v
    /\ "Op.or" \in DOMAIN where =>
           \E i \in 1..Len(where["Op.or"]) : OrMatches(row, where["Op.or"][i])

\* a where object that compares an integer column with NaN: what the store
\* does with it is not fixed by the handlers
ComparesNaN(where) ==
    \/ "generation" \in DOMAIN where /\ ~IsNum(where.generation)
    \/ /\ "baseStats.total" \in DOMAIN where
       /\ LET r == where["baseStats.total"]
          IN  \/ "gte" \in DOMAIN r /\ ~IsNum(r.gte)
              \/ "lte" \in DOMAIN r /\ ~IsNum(r.lte)

MatchingIds(where) == {i \in DOMAIN store : Matches(store[i], where)}

\* the ids of S in ascending order
RECURSIVE Ascending(_)
Ascending(S) ==
    IF S = {} THEN <<>>
    ELSE LET m == CHOOSE x \in S : \A y \in S : x <= y
         IN  <<m>> \o Ascending(S \ {m})

Reverse(s) == [i \in 1..Len(s) |-> s[Len(s) + 1 - i]]

\* ORDER BY id ASC | DESC
Ordered(S, order) ==
    IF order[2] = <<"D", "E", "S", "C">> THEN Reverse(Ascending(S)) ELSE Ascending(S)

\* OFFSET and LIMIT, both integers >= 0
Slice(s, offset, limit) ==
    LET last == IF offset + limit < Len(s) THEN offset + limit ELSE Len(s)
    IN  [i \in 1..(IF last > offset THEN last - offset ELSE 0) |-> s[offset + i]]

\* PostgreSQL rejects a negative OFFSET or LIMIT, and one that is no number
BadRange(options) ==
    \/ ~IsNum(options.offset) \/ ~IsNum(options.limit)
    \/ options.offset.v < 0 \/ options.limit.v < 0

\* Pokemon.findAndCountAll(options): count of the matching rows, and the page
RowsOf(ids) == [i \in 1..Len(ids) |-> store[ids[i]]]

findAndCountAll(options) ==
    LET ids == MatchingIds(options.where)
    IN  [count |-> Cardinality(ids),
         rows |-> RowsOf(Slice(Ordered(ids, options.order),
                               options.offset.v, options.limit.v))]

\* Pokemon.findAll({ where }): the matching rows (a set: no order is asked for)
findAll(where) == {store[i] : i \in MatchingIds(where)}

(***************************************************************************)
(* Responses.                                                              *)
(***************************************************************************)
NoResp == [op |-> "none", status |-> 0]

NoQuery == [call |-> "none"]

InternalError(op) ==
    [op |-> op, status |-> 500, success |-> FALSE, error |-> "Internal server error"]

NotFound(op, id) ==
    [op |-> op, status |-> 404, success |-> FALSE, error |-> "Pokemon not found",
     id |-> id]

ValidationError(missing) ==
    [op |-> "create", status |-> 400, success |-> FALSE, error |-> "Validation error",
     message |-> missing]

\* what the store may do with a where object that compares with NaN
StoreOutcomes == {"throws", "evaluates"}

StoreThrows(where, outcome) == ComparesNaN(where) /\ outcome = "throws"

Without(f, keys) == [k \in DOMAIN f \ keys |-> f[k]]

Param(query, key, default) == IF key \in DOMAIN query THEN query[key] ELSE default

(***************************************************************************)
(* GET /api/v1/pokemon                                                     *)
(***************************************************************************)
ListResponse(query, found) ==
    LET page == parseInt(Param(query, "page", <<"1">>))
        limit == parseInt(Param(query, "limit", <<"2", "0">>))
        totalPages == MathCeilDiv(found.count, limit)
    IN  [op |-> "list", status |-> 200, success |-> TRUE,
         data |-> found.rows,
         pagination |-> [currentPage |-> page,
                         totalPages |-> totalPages,
                         totalItems |-> found.count,
                         itemsPerPage |-> limit,
                         hasNextPage |-> JsLess(page, totalPages),
                         hasPreviousPage |-> JsGreater(page, Num(1))]]

ListOptions(query) ==
    LET filters == Without(query, {"page", "limit", "sort", "order"})
    IN  paginate([where |-> buildWhereClause(filters),
                  order |-> <<Param(query, "sort", <<"i", "d">>),
                              toUpperCase(Param(query, "order", <<"A", "S", "C">>))>>],
                 parseInt(Param(query, "page", <<"1">>)),
                 parseInt(Param(query, "limit", <<"2", "0">>)))

ListPokemon(query, outcome) ==
    LET options == ListOptions(query)
    IN  /\ req' = [op |-> "list", query |-> query]
        /\ storeQuery' = [call |-> "findAndCountAll", options |-> options]
        /\ resp' = IF BadRange(options) \/ StoreThrows(options.where, outcome)
                   THEN InternalError("list")
                   ELSE ListResponse(query, findAndCountAll(options))
        /\ UNCHANGED <<store, idSeq, del, dels, everDeleted>>

(***************************************************************************)
(* GET /api/v1/pokemon/:id                                                 *)
(***************************************************************************)
GetPokemon(id) ==
    /\ req' = [op |-> "get", id |-> id]
    /\ storeQuery' = [call |-> "findByPk", id |-> id]
    /\ resp' = IF findByPk(id) = Null
               THEN NotFound("get", id)
               ELSE [op |-> "get", status |-> 200, success |-> TRUE, id |-> id,
                     data |-> findByPk(id)]
    /\ UNCHANGED <<store, idSeq, del, dels, everDeleted>>

(***************************************************************************)
(* POST /api/v1/pokemon                                                    *)
(***************************************************************************)
\* Pokemon.create(values): "invalid" (SequelizeValidationError, nothing is
\* sent to the database), "conflict" (SequelizeUniqueConstraintError raised by
\* the INSERT) or "inserted"
CreateId(values) == IF "id" \in DOMAIN values THEN values.id ELSE idSeq + 1

CreateResult(values) ==
    IF MissingRequired(values) # {} THEN "invalid"
    ELSE IF CreateId(values) \in DOMAIN store \/ NameTaken(values.name, 0)
    THEN "conflict"
    ELSE "inserted"

\* the handler's catch: error.name === 'SequelizeValidationError' is answered
\* 400, any other error 500
CreateErrorResponse(values) ==
    IF CreateResult(values) = "invalid"
    THEN ValidationError(MissingRequired(values))
    ELSE InternalError("create")

CreatePokemon(body) ==
    LET pokemonData == WithTotal(body)
        result == CreateResult(pokemonData)
        id == CreateId(pokemonData)
    IN  /\ "id" \in DOMAIN body \/ idSeq < MaxId
        /\ req' = [op |-> "create", body |-> body]
        /\ storeQuery' = [call |-> "create", values |-> pokemonData]
        \* the sequence is advanced by every INSERT that takes its default id
        /\ idSeq' = IF result # "invalid" /\ "id" \notin DOMAIN body
                    THEN idSeq + 1 ELSE idSeq
        /\ store' = IF result = "inserted"
                    THEN (id :> NewRow(pokemonData, id)) @@ store ELSE store
        /\ resp' = IF result = "inserted"
                   THEN [op |-> "create", status |-> 201, success |-> TRUE,
                         data |-> NewRow(pokemonData, id)]
                   ELSE CreateErrorResponse(pokemonData)
        /\ dels' = IF result = "inserted" THEN [dels EXCEPT ![id] = 0] ELSE dels
        /\ UNCHANGED <<del, everDeleted>>

(***************************************************************************)
(* PUT /api/v1/pokemon/:id                                                 *)
(***************************************************************************)
UpdatePokemon(id, body) ==
    LET pokemon == findByPk(id)
        updateData == WithTotal(body)
        conflict == "name" \in DOMAIN updateData /\ NameTaken(updateData.name, id)
    IN  /\ req' = [op |-> "update", id |-> id, body |-> body]
        /\ storeQuery' = [call |-> "update", id |-> id, values |-> updateData]
        /\ store' = IF pokemon # Null /\ ~conflict
                    THEN [store EXCEPT ![id] = MergedRow(pokemon, updateData)]
                    ELSE store
        /\ resp' = IF pokemon = Null THEN NotFound("update", id)
                   ELSE IF conflict THEN InternalError("update")
                   ELSE [op |-> "update", status |-> 200, success |-> TRUE, id |-> id,
                         data |-> MergedRow(pokemon, updateData)]
        /\ UNCHANGED <<idSeq, del, dels, everDeleted>>

(***************************************************************************)
(* DELETE /api/v1/pokemon/:id: findByPk, then destroy, two store calls     *)
(* between which other requests are served.                                *)
(***************************************************************************)
\* a DELETE request between its two store calls holds the instance it found
DeleteFind(id) ==
    /\ BagCardinality(del) < MaxDeleting
    /\ req' = [op |-> "delete", id |-> id]
    /\ storeQuery' = [call |-> "findByPk", id |-> id]
    /\ IF findByPk(id) = Null
       THEN /\ resp' = NotFound("delete", id)
            /\ del' = del
       ELSE /\ resp' = NoResp
            /\ del' = del (+) SetToBag({findByPk(id)})
    /\ UNCHANGED <<store, idSeq, dels, everDeleted>>

\* a destroy that answers without removing the row
DeleteDestroyKeepsRow(pokemon) ==
    /\ BagIn(pokemon, del)
    /\ req' = [op |-> "delete", id |-> pokemon.id]
    /\ storeQuery' = [call |-> "destroy", id |-> pokemon.id]
    /\ resp' = [op |-> "delete", status |-> 200, success |-> TRUE,
                id |-> pokemon.id, data |-> pokemon]
    /\ dels' = [dels EXCEPT ![pokemon.id] = @ + 1]
    /\ everDeleted' = everDeleted \cup {pokemon.id}
    /\ del' = del (-) SetToBag({pokemon})
    /\ UNCHANGED <<store, idSeq>>

\* pokemon.destroy() is DELETE FROM pokemon WHERE id = :id, which succeeds
\* whether or not a row is left to delete
DeleteDestroy(pokemon) ==
    /\ BagIn(pokemon, del)
    /\ req' = [op |-> "delete", id |-> pokemon.id]
    /\ storeQuery' = [call |-> "destroy", id |-> pokemon.id]
    /\ store' = [i \in DOMAIN store \ {pokemon.id} |-> store[i]]
    /\ resp' = [op |-> "delete", status |-> 200, success |-> TRUE,
                id |-> pokemon.id, data |-> pokemon]
    /\ dels' = [dels EXCEPT ![pokemon.id] = @ + 1]
    /\ everDeleted' = everDeleted \cup {pokemon.id}
    /\ del' = del (-) SetToBag({pokemon})
    /\ UNCHANGED idSeq

(***************************************************************************)
(* GET /api/v1/search                                                      *)
(***************************************************************************)
\* the search condition on the name alone
SearchWhereNameOnly(query) ==
    LET filters == Without(query, {"q"})
        whereClause == buildWhereClause(filters)
    IN  IF Truthy(query, "q")
        THEN ("Op.or" :> <<[name |-> [iLike |-> Percent(query.q)]]>>) @@ whereClause
        ELSE whereClause

SearchWhere(query) ==
    LET filters == Without(query, {"q"})
        whereClause == buildWhereClause(filters)
    IN  IF Truthy(query, "q")
        THEN ("Op.or" :> <<[name |-> [iLike |-> Percent(query.q)]],
                          [species |-> [iLike |-> Percent(query.q)]],
                          [description |-> [iLike |-> Percent(query.q)]]>>)
                 @@ whereClause
        ELSE whereClause

Search(query, outcome) ==
    LET whereClause == SearchWhere(query)
    IN  /\ req' = [op |-> "search", query |-> query]
        /\ storeQuery' = [call |-> "findAll", where |-> whereClause]
        /\ resp' = IF StoreThrows(whereClause, outcome)
                   THEN InternalError("search")
                   ELSE [op |-> "search", status |-> 200, success |-> TRUE,
                         data |-> findAll(whereClause),
                         resultCount |-> Cardinality(findAll(whereClause))]
        /\ UNCHANGED <<store, idSeq, del, dels, everDeleted>>

(***************************************************************************)
(* Requests the clients send.                                              *)
(***************************************************************************)
Pikachu == <<"P", "i", "k", "a", "c", "h", "u">>
Eevee == <<"E", "e", "v", "e", "e">>
Pichu == <<"P", "i", "c", "h", "u">>
Raichu == <<"R", "a", "i", "c", "h", "u">>
Mouse == <<"M", "o", "u", "s", "e">>
Fox == <<"F", "o", "x">>
Electric == <<"E", "l", "e", "c", "t", "r", "i", "c">>
Normal == <<"N", "o", "r", "m", "a", "l">>
Zaps == <<"Z", "a", "p", "s">>
BabyPika == <<"b", "a", "b", "y", " ", "P", "I", "K", "A">>
Fluffy == <<"F", "l", "u", "f", "f", "y">>

Stats(hp, attack, defense, specialAttack, specialDefense, speed) ==
    [hp |-> hp, attack |-> attack, defense |-> defense,
     specialAttack |-> specialAttack, specialDefense |-> specialDefense,
     speed |-> speed]

PikachuStats == Stats(35, 55, 40, 50, 50, 90)
EeveeStats == Stats(55, 55, 50, 45, 65, 55)
PichuStats == Stats(20, 40, 15, 35, 35, 60)
RaichuStats == Stats(60, 90, 55, 90, 80, 110)

Body(name, species, types, baseStats, generation, description) ==
    [name |-> name, species |-> species, types |-> types, baseStats |-> baseStats,
     generation |-> generation, description |-> description]

PikachuBody == Body(Pikachu, Mouse, {Electric}, PikachuStats, 1, Zaps)
EeveeBody == Body(Eevee, Fox, {Normal}, EeveeStats, 1, Fluffy)
PichuBody == Body(Pichu, Mouse, {Electric}, PichuStats, 2, BabyPika)
RaichuBody == Body(Raichu, Mouse, {Electric}, RaichuStats, 1, Zaps)

\* bodies of POST: complete ones, ones that lack a required field, ones that
\* lack the optional generation, and ones that name the id to store under
CrudBodies ==
    {PikachuBody, EeveeBody}
        \cup {Without(PikachuBody, {f}) : f \in RequiredFields}
        \cup {("id" :> i) @@ PikachuBody : i \in Ids}

CrudUpdates == {[description |-> Zaps]}

\* stat blocks a client may send: the six stats, the six stats with a total
\* of its own, a partial block with a total, a block with a further key
StatBlocks ==
    {PikachuStats,
     ("total" :> 999) @@ PikachuStats,
     [hp |-> 35, total |-> 1],
     ("bonus" :> 7) @@ EeveeStats}

StatBodies == {[PikachuBody EXCEPT !.baseStats = b] : b \in StatBlocks}
                  \cup {[EeveeBody EXCEPT !.baseStats = b] : b \in StatBlocks}

StatUpdates == {[baseStats |-> b] : b \in StatBlocks} \cup {[description |-> Fluffy]}

Roster == {PikachuBody, EeveeBody, PichuBody, RaichuBody}

\* every query object whose keys are drawn from choices: key -> set of values
Queries(choices) ==
    UNION {[keys -> UNION {choices[k] : k \in keys}] : keys \in SUBSET DOMAIN choices}

WellChosen(query, choices) == \A k \in DOMAIN query : query[k] \in choices[k]

QueriesOf(choices) == {q \in Queries(choices) : WellChosen(q, choices)}

FilterChoices ==
    [type |-> {Electric, <<>>},
     generation |-> {<<"1">>, <<"2">>, <<"a", "b", "c">>, <<"1", "x">>},
     name |-> {<<"C", "H", "U">>},
     minStats |-> {<<"3", "2", "1">>},
     maxStats |-> {<<"3", "2", "5">>},
     foo |-> {<<"b", "a", "r">>}]

FilterQueries == QueriesOf(FilterChoices)

SearchQueries ==
    {("q" :> t) @@ f : t \in {<<"p", "i", "k", "a">>, <<"M", "O", "U">>},
                      f \in FilterQueries}
        \cup {f \in FilterQueries : "foo" \notin DOMAIN f}
        \cup {[q |-> <<>>]}

PageChoices ==
    [page |-> {<<"1">>, <<"2">>, <<"3">>, <<"0">>, <<"-", "1">>, <<"x">>},
     limit |-> {<<"1">>, <<"2", "0">>, <<"1", "0", "0">>, <<"1", "0", "1">>,
                <<"5", "0", "0">>, <<"0">>, <<"-", "5">>, <<"a", "b", "c">>},
     order |-> {<<"d", "e", "s", "c">>}]

PageQueries == QueriesOf(PageChoices)

(***************************************************************************)
(* The service: the requests that read and write single rows, served in   *)
(* any order; a DELETE is served in two steps.                             *)
(***************************************************************************)
EmptyStore == [i \in {} |-> Null]

Quiet ==
    /\ idSeq = Cardinality(DOMAIN store)
    /\ del = EmptyBag
    /\ req = [op |-> "none"]
    /\ storeQuery = NoQuery
    /\ resp = NoResp
    /\ dels = [i \in Ids |-> 0]
    /\ everDeleted = {}

Init == store = EmptyStore /\ Quiet

List(queries) == \E q \in queries, o \in StoreOutcomes : ListPokemon(q, o)

Get == \E i \in Ids : GetPokemon(i)

Create(bodies) == \E b \in bodies : CreatePokemon(b)

Update(bodies) == \E i \in Ids, b \in bodies : UpdatePokemon(i, b)

Delete ==
    \/ \E i \in Ids : DeleteFind(i)
    \/ \E pokemon \in BagToSet(del) : DeleteDestroy(pokemon)

SearchFor(queries) == \E q \in queries, o \in StoreOutcomes : Search(q, o)

Next ==
    \/ Get
    \/ Create(CrudBodies)
    \/ Update(CrudUpdates)
    \/ Delete

Spec == Init /\ [][Next]_vars

(***************************************************************************)
(* The stat block: creates and updates whose bodies carry stat blocks.     *)
(***************************************************************************)
NextStats ==
    \/ Create(StatBodies)
    \/ Update(StatUpdates)
    \/ Get

SpecStats == Init /\ [][NextStats]_vars

(***************************************************************************)
(* Filters and search over a roster of created Pokemon.                    *)
(***************************************************************************)
\* a list or a search leaves the store as it is: the request that follows one
\* is explored from the state before it
Reading == resp.op \in {"list", "search"}

NextQuery ==
    \/ Create(Roster)
    \/ ~Reading /\ List(FilterQueries)
    \/ ~Reading /\ SearchFor(SearchQueries)

SpecQuery == Init /\ [][NextQuery]_vars

(***************************************************************************)
(* Pagination over a table of up to MaxItems rows.                         *)
(***************************************************************************)
RECURSIVE IntText(_)
IntText(n) ==
    IF n < 10 THEN <<Digits[n + 1]>>
    ELSE IntText(n \div 10) \o <<Digits[(n % 10) + 1]>>

BulkBody(i) ==
    Body(<<"N", "o">> \o IntText(i), Mouse, {Electric}, PikachuStats, 1 + (i % 2), Zaps)

BulkStore(n) == [i \in 1..n |-> NewRow(WithTotal(BulkBody(i)), i)]

InitList == (\E n \in 0..MaxItems : store = BulkStore(n)) /\ Quiet

NextList == ~Reading /\ List(PageQueries)

SpecList == InitList /\ [][NextList]_vars

(***************************************************************************)
(* What the claims say of requests, stated without the handlers' helpers.  *)
(***************************************************************************)
AllDigits(s) == s # <<>> /\ \A i \in 1..Len(s) : IsDigit(s[i])

WellFormedInt(s) == AllDigits(s) \/ (Len(s) >= 2 /\ s[1] = "-" /\ AllDigits(Tail(s)))

RECURSIVE Numeral(_)
Numeral(s) ==
    IF Len(s) = 1 THEN DigitVal(s[1])
    ELSE DigitVal(Head(s)) * (10 ^ (Len(s) - 1)) + Numeral(Tail(s))

IntOf(s) == IF s[1] = "-" THEN -Numeral(Tail(s)) ELSE Numeral(s)

RequestedPage(query) == IF "page" \in DOMAIN query THEN query.page ELSE <<"1">>

RequestedLimit(query) == IF "limit" \in DOMAIN query THEN query.limit ELSE <<"2", "0">>

Minimum(a, b) == IF a <= b THEN a ELSE b

\* the least k with k * d >= n, for n >= 0 and d >= 1
Ceiling(n, d) == CHOOSE k \in 0..n : k * d >= n /\ (k = 0 \/ (k - 1) * d < n)

\* needle occurs in hay, letter case apart
Contains(hay, needle) ==
    \E i \in 0..(Len(hay) - Len(needle)) :
        ToLower(SubSeq(hay, i + 1, i + Len(needle))) = ToLower(needle)

\* a filter is present when the query gives it a value; ?type= gives none
Present(query, key) == key \in DOMAIN query /\ query[key] # <<>>

NumericFilters == {"generation", "minStats", "maxStats"}

NumbersWellFormed(query) ==
    \A k \in NumericFilters : Present(query, k) => WellFormedInt(query[k])

PassesFilters(row, query) ==
    /\ Present(query, "name") => Contains(row.name, query.name)
    /\ Present(query, "type") => query.type \in row.types
    /\ Present(query, "generation") => row.generation = IntOf(query.generation)
    /\ Present(query, "minStats") => IntOf(query.minStats) <= row.baseStats.total
    /\ Present(query, "maxStats") => row.baseStats.total <= IntOf(query.maxStats)

ContainsText(row, q) ==
    Contains(row.name, q) \/ Contains(row.species, q) \/ Contains(row.description, q)

Stored == {store[i] : i \in DOMAIN store}

Listed == {resp.data[i] : i \in 1..Len(resp.data)}

NamedSum(baseStats) == SumOver(baseStats, StatNames \cap DOMAIN baseStats)

IsList == req.op = "list"

Answered(op, status) == resp.op = op /\ resp.status = status

(***************************************************************************)
(* C1. Every stored Pokemon's baseStats.total is the sum of its six named  *)
(* stats, and so is that of the entity a Create returns, whatever total    *)
(* the client sent.                                                        *)
(***************************************************************************)
C1_TotalIsSumOfNamedStats ==
    /\ \A row \in Stored : row.baseStats.total = NamedSum(row.baseStats)
    /\ Answered("create", 201) =>
           resp.data.baseStats.total = NamedSum(resp.data.baseStats)

(***************************************************************************)
(* C2. A List request with page >= 1 and limit >= 1 reports totalPages =   *)
(* ceil(totalItems / min(limit, 100)), hasNextPage = (page < totalPages)   *)
(* and hasPreviousPage = (page > 1); with limit 20 and 45 items, page 1    *)
(* has 20 items and 3 pages, page 3 has 5 items and no next page.          *)
(***************************************************************************)
C2_Paged ==
    /\ IsList
    /\ AllDigits(RequestedPage(req.query)) /\ Numeral(RequestedPage(req.query)) >= 1
    /\ AllDigits(RequestedLimit(req.query)) /\ Numeral(RequestedLimit(req.query)) >= 1

C2_PaginationMetadata ==
    C2_Paged =>
        LET page == Numeral(RequestedPage(req.query))
            limit == Numeral(RequestedLimit(req.query))
            totalItems == Cardinality(DOMAIN store)
            totalPages == Ceiling(totalItems, Minimum(limit, 100))
        IN  /\ Answered("list", 200)
            /\ resp.pagination.totalItems = totalItems
            /\ resp.pagination.totalPages = Num(totalPages)
            /\ resp.pagination.hasNextPage = (page < totalPages)
            /\ resp.pagination.hasPreviousPage = (page > 1)
            /\ limit = 20 /\ totalItems = 45 /\ page = 1 => Len(resp.data) = 20
            /\ limit = 20 /\ totalItems = 45 /\ page = 3 => Len(resp.data) = 5

(***************************************************************************)
(* C3. Whatever limit a List request asks for, the query passed to the     *)
(* store has offset = (page - 1) * limit and limit = min(limit, 100), and  *)
(* the response never holds more than 100 items.                           *)
(***************************************************************************)
C3_Integers ==
    /\ IsList
    /\ WellFormedInt(RequestedPage(req.query))
    /\ WellFormedInt(RequestedLimit(req.query))

C3_CappedQuery ==
    /\ C3_Integers =>
           LET page == IntOf(RequestedPage(req.query))
               limit == IntOf(RequestedLimit(req.query))
           IN  /\ storeQuery.call = "findAndCountAll"
               /\ storeQuery.options.offset = Num((page - 1) * limit)
               /\ storeQuery.options.limit = Num(Minimum(limit, 100))
    /\ Answered("list", 200) => Len(resp.data) <= 100

\* limit=500 over more than 100 rows: the page holds 100 of them
C3_Witness ==
    /\ IsList /\ RequestedLimit(req.query) = <<"5", "0", "0">>
    /\ RequestedPage(req.query) = <<"1">>
    /\ Cardinality(DOMAIN store) > 100
    /\ Answered("list", 200) /\ Len(resp.data) = 100

(***************************************************************************)
(* C4. A List request whose page or limit is <= 0 is rejected or clamped   *)
(* before the store is queried: the store receives no negative offset and  *)
(* no limit <= 0, and currentPage and itemsPerPage are never <= 0.         *)
(***************************************************************************)
C4_NoNonPositivePaging ==
    C3_Integers =>
        /\ storeQuery.call = "findAndCountAll" =>
               /\ IsNum(storeQuery.options.offset) /\ storeQuery.options.offset.v >= 0
               /\ IsNum(storeQuery.options.limit) /\ storeQuery.options.limit.v > 0
        /\ Answered("list", 200) =>
               /\ resp.pagination.currentPage.v > 0
               /\ resp.pagination.itemsPerPage.v > 0

(***************************************************************************)
(* C5. A List or Search request whose generation filter is not a           *)
(* well-formed integer is answered 400 with success false; never 500, and  *)
(* never with the result of a store query.                                 *)
(***************************************************************************)
C5_MalformedGeneration ==
    /\ req.op \in {"list", "search"}
    /\ Present(req.query, "generation")
    /\ ~WellFormedInt(req.query.generation)

C5_BadGenerationIs400 ==
    C5_MalformedGeneration => resp.status = 400 /\ resp.success = FALSE

(***************************************************************************)
(* C6. A Create that lacks a required field, or whose name is that of a    *)
(* stored Pokemon, is answered 400 with a message and leaves the stored    *)
(* Pokemon as they were; only a successful Create is answered 201, with    *)
(* the persisted entity and its id.                                        *)
(***************************************************************************)
C6_FailsValidation ==
    \/ MissingRequired(req'.body) # {}
    \/ \E row \in Stored : row.name = req'.body.name

C6_CreateStep ==
    req'.op = "create" =>
        /\ C6_FailsValidation =>
               resp'.status = 400 /\ "message" \in DOMAIN resp' /\ store' = store
        /\ resp'.status = 201 =>
               /\ ~C6_FailsValidation
               /\ resp'.data.id \in DOMAIN store' /\ store'[resp'.data.id] = resp'.data

C6_ValidationFailureIs400 == [][C6_CreateStep]_vars

(***************************************************************************)
(* C7. GET /api/v1/pokemon/:id is answered 404 with success false when no  *)
(* entity with that id is stored and 200 with the entity otherwise; once a *)
(* DELETE of an id was answered 200, every later GET of the id is answered *)
(* 404.                                                                    *)
(***************************************************************************)
C7_GetReflectsStore ==
    resp.op = "get" =>
        IF resp.id \in DOMAIN store
        THEN resp.status = 200 /\ resp.success /\ resp.data = store[resp.id]
        ELSE resp.status = 404 /\ ~resp.success

C7_GetAfterDelete ==
    /\ C7_GetReflectsStore
    /\ resp.op = "get" /\ resp.id \in everDeleted => resp.status = 404

\* C7 as amended: ... once a DELETE of an id was answered 200, every later GET
\* of the id is answered 404 until a Create stores an entity under that id again
C7_GetAfterDeleteUntilCreated ==
    /\ C7_GetReflectsStore
    /\ resp.op = "get" /\ dels[resp.id] >= 1 => resp.status = 404

\* a GET of a deleted id that is answered 404
C7_Witness ==
    /\ Answered("get", 404)
    /\ resp.id \in everDeleted /\ dels[resp.id] >= 1

C10_DeletedAtMostOnce == \A i \in Ids : dels[i] <= 1

====
